---------------------------- MODULE Spec2Model ----------------------------
(***************************************************************************)
(* The V1 LLMEngine (src/vllm/v1/engine/llm_engine.py): request admission, *)
(* the step loop, and the non-blocking detokenizer channel.                *)
(*                                                                         *)
(* The engine runs on one thread; the detokenizer is a separate process    *)
(* reached through a PUSH socket (outbound) and a PULL socket (inbound).   *)
(* step() is modelled in two atomic parts, split at the zero-timeout poll  *)
(* of recv_from_detokenizer (line 344): that poll is the only place where  *)
(* the progress the worker made concurrently becomes visible to a step.    *)
(*                                                                         *)
(* The Scheduler, the executor and the detokenizer worker live outside the *)
(* engine file; they are modelled from their documented contracts.         *)
(***************************************************************************)
EXTENDS Integers, Sequences, FiniteSets, TLC

\* ------------------------------------------------------------------ bounds
MaxReqs == 3        \* Request objects ever constructed by add_request
MaxTokens == 2      \* largest max_tokens a request asks for
OutCap == 1         \* messages the outbound (PUSH) queue holds before NOBLOCK send fails
MaxModelLen == 2    \* model_config.max_model_len

Ids == {"r1", "r2"}
Uids == 1..MaxReqs
PromptLens == 0..(MaxModelLen + 1)

MaxBlocks == 9      \* largest cache-block count probed or given as override

VARIABLES
    kv,                   \* capacity negotiation: probe, override, cache_config, executor
    errorLengths,         \* the lengths the last add_request's too-long error cites
    lora_config,          \* TRUE iff self.lora_config is set
    is_multimodal_model,  \* model_config.is_multimodal_model
    waiting,              \* Scheduler: queued requests, in arrival order
    running,              \* Scheduler: scheduler.running
    detokenizer_reqs,     \* self.detokenizer_reqs: request id -> Request
    outbound,             \* push_socket: messages sent, not yet taken by the worker
    inbound,              \* pull_socket: replies of the worker, not yet received
    pc,                   \* "idle", or "recv": a step() about to poll the inbound socket
    nextUid,              \* identity of the next Request object constructed
    lastOutcome,          \* how the last engine call ended
    \* What the last engine call did, if it was a step() (empty after add/abort):
    completed,            \* the detokenized_reqs it returned
    stepGenerated,        \* it ran schedule, execute_model and update_from_output
    stepDispatched,       \* uids it put into detokenizer_reqs
    stepLost,             \* uids its receive popped from the table but did not return
    recvMsg,              \* the inbound message its receive drained (<<>> if none)
    finishedEver,         \* uids update_from_output has reported finished
    dispatchedEver,       \* uids send_to_detokenizer has been called with
    timesCompleted,       \* uid -> number of `completed` results it appeared in
    abortedEver,          \* uids abort removed from the Scheduler
    abortedPending        \* uids that were in detokenizer_reqs when abort named their id

vars == <<kv, errorLengths, lora_config, is_multimodal_model, waiting, running, detokenizer_reqs,
          outbound, inbound, pc, nextUid, completed, lastOutcome,
          stepGenerated, stepDispatched, stepLost, recvMsg, finishedEver,
          dispatchedEver, timesCompleted, abortedEver, abortedPending>>

\* ----------------------------------------------------------------- helpers
Range(s) == {s[i] : i \in 1..Len(s)}

RECURSIVE SelectReqs(_, _)
\* The subsequence of s whose request ids are not in ids.
SelectReqs(s, ids) ==
    IF s = <<>> THEN <<>>
    ELSE IF Head(s).request_id \in ids THEN SelectReqs(Tail(s), ids)
         ELSE <<Head(s)>> \o SelectReqs(Tail(s), ids)

UidsOf(s) == {s[i].uid : i \in 1..Len(s)}
IdsOf(s) == {s[i].request_id : i \in 1..Len(s)}

\* ---------------------------------------------------------------- Request
Request(request_id, uid, sampling_params, max_tokens) ==
    [request_id |-> request_id, uid |-> uid, sampling_params |-> sampling_params,
     max_tokens |-> max_tokens, num_output_tokens |-> 0, output_text |-> <<>>]

\* ------------------------------------------------ capacity (KV cache blocks)
\* An optional integer is <<>> (None) or <<n>>.
\* The engine before _initialize_kv_caches: the executor will report `probe`
\* blocks, cache_config.num_gpu_blocks_override is `override`.
KvBefore(probe, override) ==
    [probe |-> probe, num_gpu_blocks_override |-> override,
     num_gpu_blocks |-> <<>>, num_cpu_blocks |-> <<>>, initialize_cache |-> <<>>]

\* A plausible slip: `if override:` instead of `is not None`, so that an
\* override of 0 is ignored.
kv_num_gpu_blocks_truthy(probe, override) ==
    IF override # <<>> /\ override # <<0>> THEN override[1] ELSE probe

\* num_gpu_blocks as lines 178-187 compute it.
kv_num_gpu_blocks(probe, override) ==
    IF override # <<>> THEN override[1] ELSE probe

\* _initialize_kv_caches: the value is written to cache_config and passed to
\* model_executor.initialize_cache.
initialize_kv_caches(k) ==
    [k EXCEPT !.num_gpu_blocks = <<kv_num_gpu_blocks(k.probe, k.num_gpu_blocks_override)>>,
              !.num_cpu_blocks = <<0>>,
              !.initialize_cache = <<kv_num_gpu_blocks(k.probe, k.num_gpu_blocks_override)>>]

\* --------------------------------------------------------------- Scheduler
SchedulerIds == IdsOf(waiting) \cup IdsOf(running)
SchedulerUids == UidsOf(waiting) \cup UidsOf(running)

scheduler_has_unfinished_requests == Len(waiting) + Len(running) > 0
scheduler_get_num_unfinished_requests == Len(waiting) + Len(running)

\* schedule(): every queued request joins the running list.
schedule_running == running \o waiting

\* execute_model + update_from_output: one new token for every scheduled request.
Advance(req) == [req EXCEPT !.num_output_tokens = @ + 1]
Stopped(req) == req.num_output_tokens >= req.max_tokens

RECURSIVE update_finished(_)
update_finished(s) ==
    IF s = <<>> THEN <<>>
    ELSE IF Stopped(Advance(Head(s)))
         THEN <<Advance(Head(s))>> \o update_finished(Tail(s))
         ELSE update_finished(Tail(s))

RECURSIVE update_running(_)
update_running(s) ==
    IF s = <<>> THEN <<>>
    ELSE IF Stopped(Advance(Head(s)))
         THEN update_running(Tail(s))
         ELSE <<Advance(Head(s))>> \o update_running(Tail(s))


\* scheduler.add_request(req): the Scheduler refuses an id it already holds
\* ("no duplicate ids in flight"); it knows nothing of the engine's table.
scheduler_rejects(request_id) == request_id \in SchedulerIds

\* ------------------------------------------------------ engine: read-only
get_num_unfinished_requests == scheduler_get_num_unfinished_requests

has_unfinished_requests ==
    scheduler_has_unfinished_requests \/ Cardinality(DOMAIN detokenizer_reqs) > 0

\* ------------------------------------------------------ engine: admission
\* A plausible slip: the length test written with >= instead of >.
validate_model_inputs_inclusive(prompt_len) ==
    IF prompt_len = 0 THEN "ValueError: Prompt cannot be empty"
    ELSE IF is_multimodal_model /\ prompt_len >= MaxModelLen
         THEN "ValueError: prompt too long"
         ELSE "ok"

\* _validate_model_inputs: "ok", or the error it raises.
validate_model_inputs(prompt_len) ==
    IF prompt_len = 0 THEN "ValueError: Prompt cannot be empty"
    ELSE IF is_multimodal_model /\ prompt_len > MaxModelLen
         THEN "ValueError: prompt too long"
         ELSE "ok"

\* The two lengths the f-string of lines 375-377 puts into the too-long
\* error: len(prompt_ids), then max_prompt_len; nothing for any other outcome.
validate_error_lengths(outcome, prompt_len) ==
    IF outcome = "ValueError: prompt too long" THEN <<prompt_len, MaxModelLen>>
    ELSE <<>>

\* The sampling_params the constructed Request carries: `params` is the
\* caller's object, the clone updated from the generation config is
\* "updated_clone" (line 254 passes sampling_params=params).
request_sampling_params(params) == params

\* A plausible slip: the priority assertion of line 276 left out.
add_request_outcome_any_priority(request_id, lora_request, priority, prompt_len, params_kind) ==
    IF lora_request /\ ~lora_config THEN "ValueError: LoRA is not enabled"
    ELSE IF validate_model_inputs(prompt_len) # "ok"
         THEN validate_model_inputs(prompt_len)
    ELSE IF params_kind # "SamplingParams" THEN "AssertionError: params"
    ELSE IF scheduler_rejects(request_id) THEN "InvalidArgument"
    ELSE "ok"

\* add_request up to the hand-over to the Scheduler: "ok", or the error raised.
add_request_outcome(request_id, lora_request, priority, prompt_len, params_kind) ==
    IF lora_request /\ ~lora_config THEN "ValueError: LoRA is not enabled"
    ELSE IF priority # 0 THEN "AssertionError: priority"
    ELSE IF validate_model_inputs(prompt_len) # "ok"
         THEN validate_model_inputs(prompt_len)
    ELSE IF params_kind # "SamplingParams" THEN "AssertionError: params"
    ELSE IF scheduler_rejects(request_id) THEN "InvalidArgument"
    ELSE "ok"

\* A plausible slip: admission also registers the Request in the table.
add_processed_table_registers(table, req) ==
    [i \in DOMAIN table \cup {req.request_id} |->
        IF i = req.request_id THEN req ELSE table[i]]

\* self.detokenizer_reqs after _add_processed_request: admission neither
\* reads nor writes the table.
add_processed_table(table, req) == table

add_request(request_id, lora_request, priority, prompt_len, params_kind, max_tokens) ==
    /\ pc = "idle"
    /\ nextUid <= MaxReqs
    /\ LET outcome == add_request_outcome(request_id, lora_request, priority,
                                          prompt_len, params_kind)
           req == Request(request_id, nextUid,
                          request_sampling_params("caller_params"), max_tokens)
       IN /\ lastOutcome' = outcome
          /\ errorLengths' = validate_error_lengths(outcome, prompt_len)
          /\ IF outcome = "ok"
             THEN /\ waiting' = Append(waiting, req)
                  /\ detokenizer_reqs' = add_processed_table(detokenizer_reqs, req)
                  /\ nextUid' = nextUid + 1
             ELSE UNCHANGED <<waiting, detokenizer_reqs, nextUid>>
    /\ completed' = <<>>
    /\ stepGenerated' = FALSE
    /\ stepDispatched' = {}
    /\ stepLost' = {}
    /\ recvMsg' = <<>>
    /\ UNCHANGED <<kv, lora_config, is_multimodal_model, running,
                   outbound, inbound, pc, finishedEver, dispatchedEver,
                   timesCompleted, abortedEver, abortedPending>>

\* abort_request(ids): scheduler.abort_requests(ids), nothing else.
abort_request(ids) ==
    /\ pc = "idle"
    /\ waiting' = SelectReqs(waiting, ids)
    /\ running' = SelectReqs(running, ids)
    /\ lastOutcome' = "ok"
    /\ abortedEver' = abortedEver \cup
           {u \in SchedulerUids : \E r \in Range(waiting) \cup Range(running) :
                r.uid = u /\ r.request_id \in ids}
    /\ abortedPending' = abortedPending \cup
           {detokenizer_reqs[i].uid : i \in ids \cap DOMAIN detokenizer_reqs}
    /\ completed' = <<>>
    /\ stepGenerated' = FALSE
    /\ stepDispatched' = {}
    /\ stepLost' = {}
    /\ recvMsg' = <<>>
    /\ UNCHANGED <<kv, errorLengths, lora_config, is_multimodal_model, detokenizer_reqs, outbound,
                   inbound, pc, nextUid, finishedEver, dispatchedEver,
                   timesCompleted>>

\* ------------------------------------------------- engine: send / receive
\* self.detokenizer_reqs[req.request_id] = req
table_put(table, req) ==
    [i \in DOMAIN table \cup {req.request_id} |->
        IF i = req.request_id THEN req ELSE table[i]]

RECURSIVE send_table(_, _)
\* The table after the loop of send_to_detokenizer over `requests`.
send_table(table, requests) ==
    IF requests = <<>> THEN table
    ELSE send_table(table_put(table, Head(requests)), Tail(requests))

\* The DetokenizerInputs built by send_to_detokenizer: one entry per request,
\* in order; new_token_ids is the number of output token ids sent. for_uid is a ghost tag (which Request object the entry was built
\* from); the engine never reads it.
send_message(requests) ==
    [i \in 1..Len(requests) |->
        [req_id |-> requests[i].request_id,
         new_token_ids |-> requests[i].num_output_tokens,
         for_uid |-> requests[i].uid]]

\* push_socket.send(..., flags=zmq.NOBLOCK) is accepted iff the queue has room.
send_accepted == Len(outbound) < OutCap

\* assert req_id in self.detokenizer_reqs
recv_known(req_id, table) == req_id \in DOMAIN table

\* A plausible slip: the entry is read (get) but not removed.
table_pop_keeps(table, req_id) == table

\* self.detokenizer_reqs.pop(req_id): the table without req_id.
table_pop(table, req_id) == [i \in DOMAIN table \ {req_id} |-> table[i]]

\* A plausible slip: the increment is dropped.
append_text_drops(req, text) == req

\* req.output_text += data.detokenized_texts[i]
append_text(req, text) == [req EXCEPT !.output_text = @ \o text]

RECURSIVE recv_loop_skips_unknown(_, _, _)
\* A plausible slip: an unknown id is skipped instead of asserted on.
recv_loop_skips_unknown(entries, table, acc) ==
    IF entries = <<>> THEN [table |-> table, out |-> acc, ok |-> TRUE]
    ELSE LET e == Head(entries) IN
         IF ~recv_known(e.req_id, table)
         THEN recv_loop_skips_unknown(Tail(entries), table, acc)
         ELSE recv_loop_skips_unknown(Tail(entries), table_pop(table, e.req_id),
                        Append(acc, append_text(table[e.req_id], e.text)))

RECURSIVE recv_loop(_, _, _)
\* The for loop of recv_from_detokenizer over the entries of one message:
\* the table and the list built when it ends, and whether it ended normally
\* (ok) or at a failed assert.
recv_loop(entries, table, acc) ==
    IF entries = <<>> THEN [table |-> table, out |-> acc, ok |-> TRUE]
    ELSE LET e == Head(entries) IN
         IF ~recv_known(e.req_id, table)
         THEN [table |-> table, out |-> acc, ok |-> FALSE]
         ELSE recv_loop(Tail(entries), table_pop(table, e.req_id),
                        Append(acc, append_text(table[e.req_id], e.text)))

\* ----------------------------------------------------------- engine: step
\* A plausible slip: step() schedules and executes unconditionally.
step_always_works == TRUE

\* step() finds scheduler.has_unfinished_requests() true.
step_has_work == scheduler_has_unfinished_requests

\* step(), lines 311-318, up to the poll of line 344: schedule, execute_model
\* and update_from_output succeed, and the finished requests (if any) are
\* handed to send_to_detokenizer, whose send is accepted.
StepGenerate ==
    /\ pc = "idle"
    /\ step_has_work
    /\ LET finished == update_finished(schedule_running) IN
       /\ finished # <<>> => send_accepted
       /\ waiting' = <<>>
       /\ running' = update_running(schedule_running)
       /\ detokenizer_reqs' = send_table(detokenizer_reqs, finished)
       /\ outbound' = IF finished = <<>> THEN outbound
                      ELSE Append(outbound, send_message(finished))
       /\ finishedEver' = finishedEver \cup UidsOf(finished)
       /\ dispatchedEver' = dispatchedEver \cup UidsOf(finished)
       /\ stepDispatched' = UidsOf(finished)
    /\ pc' = "recv"
    /\ stepGenerated' = TRUE
    /\ completed' = <<>>
    /\ lastOutcome' = "in step"
    /\ stepLost' = {}
    /\ recvMsg' = <<>>
    /\ UNCHANGED <<kv, errorLengths, lora_config, is_multimodal_model, inbound, nextUid,
                   timesCompleted, abortedEver, abortedPending>>

\* The same, but the outbound queue is full: the table is filled, then
\* push_socket.send raises zmq.Again, which step() does not catch.
StepSendAgain ==
    /\ pc = "idle"
    /\ step_has_work
    /\ LET finished == update_finished(schedule_running) IN
       /\ finished # <<>>
       /\ ~send_accepted
       /\ waiting' = <<>>
       /\ running' = update_running(schedule_running)
       /\ detokenizer_reqs' = send_table(detokenizer_reqs, finished)
       /\ finishedEver' = finishedEver \cup UidsOf(finished)
       /\ dispatchedEver' = dispatchedEver \cup UidsOf(finished)
       /\ stepDispatched' = UidsOf(finished)
    /\ stepGenerated' = TRUE
    /\ completed' = <<>>
    /\ lastOutcome' = "zmq.Again"
    /\ stepLost' = {}
    /\ recvMsg' = <<>>
    /\ UNCHANGED <<kv, errorLengths, lora_config, is_multimodal_model, outbound, inbound, pc, nextUid, timesCompleted, abortedEver, abortedPending>>

\* A plausible slip: the executor's error is noticed only after
\* update_from_output and send_to_detokenizer have run on what it left.
StepExecuteError_applies ==
    /\ pc = "idle"
    /\ step_has_work
    /\ LET finished == update_finished(schedule_running) IN
       /\ waiting' = <<>>
       /\ running' = update_running(schedule_running)
       /\ detokenizer_reqs' = send_table(detokenizer_reqs, finished)
       /\ finishedEver' = finishedEver \cup UidsOf(finished)
       /\ dispatchedEver' = dispatchedEver \cup UidsOf(finished)
       /\ stepDispatched' = UidsOf(finished)
    /\ stepGenerated' = TRUE
    /\ completed' = <<>>
    /\ lastOutcome' = "ExecutorError"
    /\ stepLost' = {}
    /\ recvMsg' = <<>>
    /\ UNCHANGED <<kv, errorLengths, lora_config, is_multimodal_model, outbound,
                   inbound, pc, nextUid, timesCompleted, abortedEver, abortedPending>>

\* execute_model raises after schedule() has run: the error leaves step().
StepExecuteError ==
    /\ pc = "idle"
    /\ step_has_work
    /\ waiting' = <<>>
    /\ running' = schedule_running
    /\ stepGenerated' = FALSE
    /\ stepDispatched' = {}
    /\ completed' = <<>>
    /\ lastOutcome' = "ExecutorError"
    /\ stepLost' = {}
    /\ recvMsg' = <<>>
    /\ UNCHANGED <<kv, errorLengths, lora_config, is_multimodal_model, detokenizer_reqs, outbound,
                   inbound, pc, nextUid, finishedEver, dispatchedEver,
                   timesCompleted, abortedEver, abortedPending>>

\* step() finds nothing unfinished in the Scheduler and goes to the receive path.
StepNoWork ==
    /\ pc = "idle"
    /\ ~step_has_work
    /\ pc' = "recv"
    /\ stepGenerated' = FALSE
    /\ stepDispatched' = {}
    /\ completed' = <<>>
    /\ lastOutcome' = "in step"
    /\ stepLost' = {}
    /\ recvMsg' = <<>>
    /\ UNCHANGED <<kv, errorLengths, lora_config, is_multimodal_model, waiting, running, detokenizer_reqs,
                   outbound, inbound, nextUid, finishedEver,
                   dispatchedEver, timesCompleted, abortedEver, abortedPending>>

RECURSIVE Flatten(_)
Flatten(msgs) == IF msgs = <<>> THEN <<>> ELSE Head(msgs) \o Flatten(Tail(msgs))

\* A plausible slip: the receive polls in a loop until the socket is empty.
recv_poll_drains_all == [drained |-> Flatten(inbound), rest |-> <<>>]

\* poll(timeout=0) and, if a message is ready, one recv(): the entries of the
\* message taken and the messages left on the socket.
recv_poll ==
    IF inbound = <<>> THEN [drained |-> <<>>, rest |-> <<>>]
    ELSE [drained |-> Head(inbound), rest |-> Tail(inbound)]

\* The entries of the messages one call of recv_from_detokenizer drains.
recv_drained == recv_poll.drained

\* recv_from_detokenizer and the return of step(), lines 319-320.
StepRecv ==
    /\ pc = "recv"
    /\ LET r == recv_loop(recv_drained, detokenizer_reqs, <<>>) IN
       /\ inbound' = recv_poll.rest
       /\ recvMsg' = recv_drained
       /\ detokenizer_reqs' = r.table
       /\ completed' = IF r.ok THEN r.out ELSE <<>>
       /\ lastOutcome' = IF r.ok THEN "ok" ELSE "AssertionError: req_id"
       /\ stepLost' = IF r.ok THEN {} ELSE UidsOf(r.out)
       /\ timesCompleted' =
            [u \in Uids |-> timesCompleted[u] +
                Cardinality({i \in 1..Len(completed') : completed'[i].uid = u})]
    /\ pc' = "idle"
    /\ UNCHANGED <<kv, errorLengths, lora_config, is_multimodal_model, waiting, running, outbound,
                   nextUid, stepGenerated, stepDispatched, finishedEver,
                   dispatchedEver, abortedEver, abortedPending>>

\* ------------------------------------------------------ detokenizer worker
\* The text of n token ids: one character per token.
Detokenize(n) == [k \in 1..n |-> "t"]

\* The worker takes one message and replies with one text increment per
\* request id, in the same order.
DetokenizerReply ==
    /\ outbound # <<>>
    /\ inbound' = Append(inbound,
              [i \in 1..Len(Head(outbound)) |->
                  [req_id |-> Head(outbound)[i].req_id,
                   for_uid |-> Head(outbound)[i].for_uid,
                   text |-> Detokenize(Head(outbound)[i].new_token_ids)]])
    /\ outbound' = Tail(outbound)
    /\ UNCHANGED <<kv, errorLengths, lora_config, is_multimodal_model, waiting, running, detokenizer_reqs,
                   pc, nextUid, completed, lastOutcome, stepGenerated,
                   stepDispatched, stepLost, recvMsg, finishedEver, dispatchedEver,
                   timesCompleted, abortedEver, abortedPending>>

\* ------------------------------------------------------------ specification
\* The engine after __init__: empty Scheduler, empty table, empty sockets.
Init ==
    /\ kv = initialize_kv_caches(KvBefore(1, <<>>))
    /\ errorLengths = <<>>
    /\ lora_config = FALSE
    /\ is_multimodal_model = TRUE
    /\ waiting = <<>>
    /\ running = <<>>
    /\ detokenizer_reqs = <<>>
    /\ outbound = <<>>
    /\ inbound = <<>>
    /\ pc = "idle"
    /\ nextUid = 1
    /\ completed = <<>>
    /\ lastOutcome = "ok"
    /\ stepGenerated = FALSE
    /\ stepDispatched = {}
    /\ stepLost = {}
    /\ recvMsg = <<>>
    /\ finishedEver = {}
    /\ dispatchedEver = {}
    /\ timesCompleted = [u \in Uids |-> 0]
    /\ abortedEver = {}
    /\ abortedPending = {}

\* add_request called with arguments that pass every check on the arguments
\* themselves: no adapter, default priority, a prompt that fits, SamplingParams.
AddRequest ==
    \E request_id \in Ids, max_tokens \in 1..MaxTokens :
        add_request(request_id, FALSE, 0, 1, "SamplingParams", max_tokens)

AbortRequest == \E ids \in (SUBSET Ids) \ {{}} : abort_request(ids)

Next ==
    \/ AddRequest
    \/ AbortRequest
    \/ StepGenerate
    \/ StepSendAgain
    \/ StepExecuteError
    \/ StepNoWork
    \/ StepRecv
    \/ DetokenizerReply

Spec == Init /\ [][Next]_vars

\* The engine beside a detokenizer worker that is stalled: it never takes a
\* message from the outbound queue and never produces a reply.
StalledNext ==
    \/ AddRequest
    \/ AbortRequest
    \/ StepGenerate
    \/ StepSendAgain
    \/ StepExecuteError
    \/ StepNoWork
    \/ StepRecv

StalledSpec == Init /\ [][StalledNext]_vars

\* The engine under every configuration of adapter support and model kind,
\* with add_request called with arbitrary arguments, between steps that
\* succeed or fail to send; no request is aborted and the executor does not fail.
ParamsKinds == {"SamplingParams", "PoolingParams"}
Priorities == {0, 1}

AdmitInit ==
    /\ kv = initialize_kv_caches(KvBefore(1, <<>>))
    /\ errorLengths = <<>>
    /\ lora_config \in BOOLEAN
    /\ is_multimodal_model \in BOOLEAN
    /\ waiting = <<>>
    /\ running = <<>>
    /\ detokenizer_reqs = <<>>
    /\ outbound = <<>>
    /\ inbound = <<>>
    /\ pc = "idle"
    /\ nextUid = 1
    /\ completed = <<>>
    /\ lastOutcome = "ok"
    /\ stepGenerated = FALSE
    /\ stepDispatched = {}
    /\ stepLost = {}
    /\ recvMsg = <<>>
    /\ finishedEver = {}
    /\ dispatchedEver = {}
    /\ timesCompleted = [u \in Uids |-> 0]
    /\ abortedEver = {}
    /\ abortedPending = {}

AddRequestAny ==
    \E request_id \in Ids, lora_request \in BOOLEAN, priority \in Priorities,
       prompt_len \in PromptLens, params_kind \in ParamsKinds,
       max_tokens \in 1..MaxTokens :
        add_request(request_id, lora_request, priority, prompt_len,
                    params_kind, max_tokens)

AdmitNext ==
    \/ AddRequestAny
    \/ StepGenerate
    \/ StepSendAgain
    \/ StepNoWork
    \/ StepRecv
    \/ DetokenizerReply

AdmitSpec == AdmitInit /\ [][AdmitNext]_vars

\* The constructor around _initialize_kv_caches: any probed block count, any
\* operator override or none, and the one call that negotiates the capacity.
Overrides == {<<>>} \cup {<<n>> : n \in 0..MaxBlocks}

CapInit ==
    /\ kv \in {KvBefore(probe, override) : probe \in 0..MaxBlocks, override \in Overrides}
    /\ errorLengths = <<>>
    /\ lora_config = FALSE
    /\ is_multimodal_model = TRUE
    /\ waiting = <<>>
    /\ running = <<>>
    /\ detokenizer_reqs = <<>>
    /\ outbound = <<>>
    /\ inbound = <<>>
    /\ pc = "idle"
    /\ nextUid = 1
    /\ completed = <<>>
    /\ lastOutcome = "ok"
    /\ stepGenerated = FALSE
    /\ stepDispatched = {}
    /\ stepLost = {}
    /\ recvMsg = <<>>
    /\ finishedEver = {}
    /\ dispatchedEver = {}
    /\ timesCompleted = [u \in Uids |-> 0]
    /\ abortedEver = {}
    /\ abortedPending = {}

InitializeKvCaches ==
    /\ kv.num_gpu_blocks = <<>>
    /\ kv' = initialize_kv_caches(kv)
    /\ UNCHANGED <<errorLengths, lora_config, is_multimodal_model, waiting,
                   running, detokenizer_reqs, outbound, inbound, pc, nextUid,
                   lastOutcome, completed, stepGenerated, stepDispatched,
                   stepLost, recvMsg, finishedEver, dispatchedEver,
                   timesCompleted, abortedEver, abortedPending>>

CapacityNext == InitializeKvCaches

CapacitySpec == CapInit /\ [][CapacityNext]_vars

\* ------------------------------------------------------------------ claims
\* The first part of a step() call, whichever way it goes.
StepCall == StepGenerate \/ StepSendAgain \/ StepExecuteError \/ StepNoWork

ActiveIds == SchedulerIds \cup DOMAIN detokenizer_reqs
PendingUids == {detokenizer_reqs[i].uid : i \in DOMAIN detokenizer_reqs}
CompletedUids == UidsOf(completed)

\* C1: in every reachable state each request id is held by at most one of
\* the Scheduler (queued or running) and detokenizer_reqs; so the running set
\* step() returns holds no request whose id is in the pending table.
C1_MutualExclusion == SchedulerIds \cap DOMAIN detokenizer_reqs = {}

\* C2: a Request appears in the `completed` result of step() at most once,
\* and only after update_from_output reported it finished and the receive
\* path drained a detokenizer message carrying its id.
C2_CompletedOnceAfterFinishAndReply ==
    /\ \A u \in Uids : timesCompleted[u] <= 1
    /\ \A i \in 1..Len(completed) :
          /\ completed[i].uid \in finishedEver
          /\ \E j \in 1..Len(recvMsg) : recvMsg[j].req_id = completed[i].request_id

C2_Witness == \E u \in Uids : timesCompleted[u] = 1 /\ u \in CompletedUids

\* C3: add_request with an id that is Queued, Running or AwaitingDetokenization
\* fails with InvalidArgument and leaves the Scheduler and the pending table
\* unchanged.
C3_DuplicateAddRejected ==
    [][\A id \in Ids :
         (/\ id \in ActiveIds
          /\ \E max_tokens \in 1..MaxTokens :
                add_request(id, FALSE, 0, 1, "SamplingParams", max_tokens))
         => (/\ lastOutcome' = "InvalidArgument"
             /\ UNCHANGED <<waiting, running, detokenizer_reqs>>)]_vars

\* C4: with the detokenizer worker stalled, every step() call still returns:
\* it reaches its receive path instead of failing on the detokenizer channel,
\* and every request the Scheduler had running got its token.
C4_StalledWorkerStepReturns ==
    [][(step_has_work /\ (StepGenerate \/ StepSendAgain))
         => (/\ pc' = "recv"
             /\ lastOutcome' # "zmq.Again"
             /\ running' = update_running(schedule_running))]_vars

\* C5 (as stated): a Request never appears in `completed` of the step() call
\* that put it into the pending table.
C5_StrictlyLaterStep == CompletedUids \cap stepDispatched = {}

\* C5 (amended): a Request appears in `completed` only in the step() call that
\* put it into the pending table or in a later one, never before it was
\* dispatched.
C5_NotBeforeDispatch == CompletedUids \subseteq dispatchedEver

C5_Witness ==
    /\ CompletedUids # {}
    /\ CompletedUids \cap stepDispatched = {}
    /\ stepDispatched # {}

\* C6: when the Scheduler has nothing unfinished, step() runs no schedule,
\* execute_model or update_from_output and dispatches nothing, but still runs
\* the receive path: a reply that is ready then is returned in `completed`.
C6_IdleStepOnlyReceives ==
    [][/\ (~scheduler_has_unfinished_requests /\ StepCall)
            => (/\ pc' = "recv"
                /\ ~stepGenerated'
                /\ stepDispatched' = {}
                /\ UNCHANGED <<waiting, running, detokenizer_reqs, outbound>>)
       /\ (/\ ~stepGenerated
           /\ StepRecv
           /\ inbound # <<>>
           /\ \A j \in 1..Len(Head(inbound)) :
                 Head(inbound)[j].req_id \in DOMAIN detokenizer_reqs)
            => (/\ Len(completed') = Len(Head(inbound))
                /\ \A j \in 1..Len(Head(inbound)) :
                      completed'[j] = [detokenizer_reqs[Head(inbound)[j].req_id]
                                         EXCEPT !.output_text = @ \o Head(inbound)[j].text])
      ]_vars

C6_Witness ==
    /\ pc = "idle"
    /\ lastOutcome = "ok"
    /\ ~stepGenerated
    /\ completed # <<>>

\* C7 (what a finite run can refute of it): a Request that was admitted, not
\* aborted and has not yet appeared in `completed` is still held by the
\* Scheduler or by the pending table; one held by neither can never appear
\* in `completed`, whatever the Scheduler, executor and worker do.
C7_AdmittedRequestCompletes ==
    \A u \in 1..(nextUid - 1) :
        (u \notin abortedEver /\ timesCompleted[u] = 0)
            => (u \in SchedulerUids \/ u \in PendingUids)

\* C8: abort changes Scheduler-owned state only (the pending table and the
\* channel are untouched), and a Request that was in the pending table when
\* abort named its id appears in `completed` when the reply to its dispatch
\* is received.
C8_AbortSparesPending ==
    [][/\ (\E ids \in (SUBSET Ids) \ {{}} : abort_request(ids))
            => UNCHANGED <<detokenizer_reqs, outbound, inbound>>
       /\ StepRecv
            => \A j \in 1..Len(recv_drained) :
                  recv_drained[j].for_uid \in abortedPending
                      => recv_drained[j].for_uid \in UidsOf(completed')
      ]_vars

\* C9: when the non-blocking send is rejected (outbound queue full), step()
\* is not aborted: it goes on to the receive path, and the finished requests
\* are in the pending table.
C9_SendFailureNotFatal ==
    [][(/\ StepCall
        /\ step_has_work
        /\ update_finished(schedule_running) # <<>>
        /\ ~send_accepted)
         => (/\ pc' = "recv"
             /\ UidsOf(update_finished(schedule_running)) \subseteq
                    {detokenizer_reqs'[i].uid : i \in DOMAIN detokenizer_reqs'})]_vars

\* C10: when the drained message names an id that is not in the pending
\* table, the receive fails with the assertion error and returns nothing;
\* an id that was not in the table is never returned in `completed`.
C10_DesyncIsFatal ==
    [][StepRecv =>
        /\ (\E j \in 1..Len(recv_drained) :
                recv_drained[j].req_id \notin DOMAIN detokenizer_reqs)
             => (lastOutcome' = "AssertionError: req_id" /\ completed' = <<>>)
        /\ \A i \in 1..Len(completed') :
                completed'[i].request_id \in DOMAIN detokenizer_reqs]_vars

C10_Witness ==
    /\ lastOutcome = "AssertionError: req_id"
    /\ \E j \in 1..Len(recvMsg) : recvMsg[j].req_id \notin DOMAIN detokenizer_reqs

\* The requests the Scheduler holds, in schedule order.
SchedulerReqs == running \o waiting

\* C11: if execute_model fails during step(), the error leaves step() (no
\* receive path), update_from_output is not applied (no request gets a token
\* or is reported finished), nothing is dispatched and the pending table is
\* unchanged.
C11_ExecutorFailureAppliesNothing ==
    [][(StepCall /\ lastOutcome' = "ExecutorError")
         => (/\ pc' = "idle"
             /\ running' \o waiting' = SchedulerReqs
             /\ finishedEver' = finishedEver
             /\ dispatchedEver' = dispatchedEver
             /\ stepDispatched' = {}
             /\ completed' = <<>>
             /\ UNCHANGED <<detokenizer_reqs, outbound, inbound>>)]_vars

C11_Witness ==
    /\ lastOutcome = "ExecutorError"
    /\ \E i \in 1..Len(running) :
          running[i].num_output_tokens + 1 >= running[i].max_tokens

\* C13: a receipt appends its increment to the text the Request already has:
\* every Request returned by the receive path carries the text it had in the
\* pending table followed by the increment the message gives for its id.
C13_TextIsAppended ==
    [][(StepRecv /\ lastOutcome' = "ok")
         => (/\ Len(completed') = Len(recv_drained)
             /\ \A j \in 1..Len(recv_drained) :
                   /\ completed'[j].request_id = recv_drained[j].req_id
                   /\ completed'[j].output_text =
                        detokenizer_reqs[recv_drained[j].req_id].output_text
                            \o recv_drained[j].text)]_vars

C13_Witness ==
    /\ Len(completed) = 2
    /\ completed[1].output_text # completed[2].output_text
    /\ \A i \in 1..2 : completed[i].output_text = recvMsg[i].text

\* C16: one call of the receive path takes at most one message off the
\* inbound socket; the messages behind it stay queued, in order, for the
\* following calls, and what the call returns comes from that one message.
C16_OneMessagePerReceive ==
    [][StepRecv
         => (/\ inbound # <<>> => inbound' = Tail(inbound)
             /\ inbound = <<>> => (inbound' = <<>> /\ completed' = <<>>)
             /\ inbound # <<>> => Len(completed') <= Len(Head(inbound)))]_vars

C16_Witness ==
    /\ pc = "idle"
    /\ recvMsg # <<>>
    /\ completed # <<>>
    /\ inbound # <<>>

\* C17: whenever send_to_detokenizer puts a finished request into the
\* pending table, its id is not yet in the table: no entry is overwritten.
C17_SendNeverOverwrites ==
    [][(StepGenerate \/ StepSendAgain)
         => IdsOf(update_finished(schedule_running)) \cap DOMAIN detokenizer_reqs = {}]_vars

\* C18: a receive that ends in the desync assertion has removed no request
\* from the pending table: every request it popped is returned.
C18_FailedReceiveIsAllOrNothing ==
    [][(StepRecv /\ lastOutcome' = "AssertionError: req_id")
         => detokenizer_reqs' = detokenizer_reqs]_vars

\* C19: has_unfinished_requests() is true exactly when
\* get_num_unfinished_requests() is greater than zero.
C19_HasUnfinishedAgreesWithCount ==
    has_unfinished_requests <=> (get_num_unfinished_requests > 0)

\* C20: the Request handed to the Scheduler carries the clone of the
\* caller's parameters updated from the generation config and the eos token.
C20_RequestCarriesUpdatedClone ==
    \A i \in 1..Len(SchedulerReqs) :
        SchedulerReqs[i].sampling_params = "updated_clone"

\* The arguments the engine is to refuse, whatever the request id.
AddRejectedInput(lora_request, priority, prompt_len, params_kind) ==
    \/ lora_request /\ ~lora_config
    \/ priority # 0
    \/ params_kind # "SamplingParams"
    \/ prompt_len = 0
    \/ is_multimodal_model /\ prompt_len > MaxModelLen

\* C12: an add that is rejected (adapter requested while adapter support is
\* disabled, non-default priority, parameters that are not SamplingParams, an
\* empty prompt, a too-long prompt) raises in the call itself and mutates no
\* state: the Scheduler holds the same requests and the pending table, both
\* sockets and the id counter are unchanged; and each of the listed inputs is
\* rejected (an add that is accepted had none of them).
C12_RejectedAddMutatesNothing ==
    [][/\ lastOutcome' = "ok"
            => \A request_id \in Ids, lora_request \in BOOLEAN, priority \in Priorities,
                  prompt_len \in PromptLens, params_kind \in ParamsKinds,
                  max_tokens \in 1..MaxTokens :
                  add_request(request_id, lora_request, priority, prompt_len,
                              params_kind, max_tokens)
                  => ~AddRejectedInput(lora_request, priority, prompt_len, params_kind)
       /\ (lastOutcome' # "ok" /\ AddRequestAny)
            => /\ pc' = "idle"
               /\ UNCHANGED <<waiting, running, detokenizer_reqs,
                              outbound, inbound, nextUid>>]_vars

C12_Witness ==
    /\ lastOutcome \in {"ValueError: LoRA is not enabled", "AssertionError: priority",
                         "AssertionError: params", "ValueError: Prompt cannot be empty",
                         "ValueError: prompt too long"}
    /\ SchedulerReqs # <<>>
    /\ DOMAIN detokenizer_reqs # {}

\* C14: on a multimodal model, admission accepts a prompt of exactly
\* max_model_len tokens and rejects one that is one token longer with the
\* too-long error, which cites the actual length and then the maximum; an
\* empty prompt is rejected on every model.
C14_PromptLengthBoundary ==
    [][\A request_id \in Ids, prompt_len \in PromptLens, max_tokens \in 1..MaxTokens :
          add_request(request_id, FALSE, 0, prompt_len, "SamplingParams", max_tokens)
          => /\ (is_multimodal_model /\ prompt_len = MaxModelLen
                     /\ ~scheduler_rejects(request_id))
                    => (lastOutcome' = "ok" /\ errorLengths' = <<>>
                        /\ Len(waiting') = Len(waiting) + 1)
             /\ (is_multimodal_model /\ prompt_len = MaxModelLen + 1)
                    => (lastOutcome' = "ValueError: prompt too long"
                        /\ errorLengths' = <<MaxModelLen + 1, MaxModelLen>>)
             /\ prompt_len = 0
                    => lastOutcome' = "ValueError: Prompt cannot be empty"]_vars

C14_Witness ==
    /\ is_multimodal_model
    /\ lastOutcome = "ValueError: prompt too long"
    /\ errorLengths = <<MaxModelLen + 1, MaxModelLen>>
    /\ SchedulerReqs # <<>>

\* C15: once _initialize_kv_caches has run, cache_config.num_gpu_blocks is
\* exactly the override when an override is present, whatever was probed, and
\* exactly the probed value when none is present; Executor.initialize_cache
\* was called with the same value.
C15_OverrideDeterminesCapacity ==
    kv.num_gpu_blocks # <<>>
        => /\ kv.num_gpu_blocks =
                  (IF kv.num_gpu_blocks_override # <<>>
                   THEN kv.num_gpu_blocks_override ELSE <<kv.probe>>)
           /\ kv.initialize_cache = kv.num_gpu_blocks

C15_Witness ==
    /\ kv.num_gpu_blocks # <<>>
    /\ kv.num_gpu_blocks_override # <<>>
    /\ kv.num_gpu_blocks_override[1] < kv.probe
    /\ kv.num_gpu_blocks = kv.num_gpu_blocks_override
    /\ kv.initialize_cache = kv.num_gpu_blocks_override

====
